---- MODULE Spec2Model ----
(***************************************************************************)
(* A model of internal/dreamhost/dreamhost.go: the DreamHost DNS client.   *)
(*                                                                         *)
(* Strings that travel through URLs are sequences of tokens.  A token is   *)
(* either one reserved byte ("/", "?", "=", "&", the control byte DEL), one *)
(* percent-escape ("%2F", ...), or an unbroken run of unreserved bytes     *)
(* ("cmd", "unique_id", "TXT", ...).  Escaping works byte by byte and      *)
(* leaves unreserved bytes alone, so a run of them behaves as one unit.    *)
(* Origin is the prefix "https://api.dreamhost.com" of an absolute URL.    *)
(***************************************************************************)
EXTENDS Integers, Sequences, FiniteSets, TLC

\* ------------------------------------------------------------------ bounds

\* Longest tail (what follows the origin) of a base URL given to NewClient.
MaxUrlLen == 3
\* Goroutines calling CreateRecord/DeleteRecord on the one client at once.
NumCallers == 2

\* --------------------------------------------------------------- constants

Origin == "https://api.dreamhost.com"
OriginHost == "api.dreamhost.com"
DEL == "\\x7f"
agentString == "cert-manager-webhook-dreamhost/0.1"
dreamhostBaseUrl == <<Origin, "/">>
DefaultTimeoutSeconds == 15
StatusMin == 200
StatusLimit == 300
UniqueIdUsed == "unique_id_already_used"

\* ----------------------------------------------------------------- strings

\* strings.Index for a one-token needle: the first position, 0 when absent.
IndexOf(s, t) ==
  IF \E i \in 1..Len(s) : s[i] = t
  THEN CHOOSE i \in 1..Len(s) : s[i] = t /\ \A j \in 1..(i - 1) : s[j] # t
  ELSE 0

\* strings.Count for a one-token needle.
Count(s, t) == Cardinality({i \in 1..Len(s) : s[i] = t})

\* strings.HasSuffix for a one-token suffix.
HasSuffix(s, t) == Len(s) >= 1 /\ s[Len(s)] = t

\* strings.Split on a one-token separator.
RECURSIVE SplitOn(_, _)
SplitOn(s, sep) ==
  LET i == IndexOf(s, sep)
  IN IF i = 0 THEN <<s>>
     ELSE <<SubSeq(s, 1, i - 1)>> \o SplitOn(SubSeq(s, i + 1, Len(s)), sep)

\* Byte order of the tokens, as sort.Strings sees their first bytes.
ByteOrder ==
  <<"%26", "%2F", "%3D", "%3F", "%7F", "&", "/", "=", "?", "A1B2", "TXT",
    "cmd", "example.com", "format", "key", "record", "type", "unique123",
    "unique_id", "value", DEL>>

Rank(t) == IndexOf(ByteOrder, t)

RECURSIVE StrLess(_, _)
StrLess(a, b) ==
  IF a = <<>> THEN b # <<>>
  ELSE IF b = <<>> THEN FALSE
  ELSE IF a[1] = b[1] THEN StrLess(Tail(a), Tail(b))
  ELSE Rank(a[1]) < Rank(b[1])

\* ------------------------------------------------------------------- net/url

\* url.QueryEscape, one token at a time.
EscapeTok(t) ==
  CASE t = "&" -> "%26"
    [] t = "/" -> "%2F"
    [] t = "=" -> "%3D"
    [] t = "?" -> "%3F"
    [] t = DEL -> "%7F"
    [] OTHER -> t

QueryEscape(s) == [i \in 1..Len(s) |-> EscapeTok(s[i])]

\* url.QueryUnescape, one token at a time.
UnescapeTok(t) ==
  CASE t = "%26" -> "&"
    [] t = "%2F" -> "/"
    [] t = "%3D" -> "="
    [] t = "%3F" -> "?"
    [] t = "%7F" -> DEL
    [] OTHER -> t

QueryUnescape(s) == [i \in 1..Len(s) |-> UnescapeTok(s[i])]

\* url.ParseQuery, errors dropped as URL.Query() drops them: the pairs in
\* the order they stand in the query; a url.Values is this list of pairs.
RECURSIVE PairsOf(_)
PairsOf(pieces) ==
  IF pieces = <<>> THEN <<>>
  ELSE LET p == Head(pieces)
           e == IndexOf(p, "=")
           k == IF e = 0 THEN p ELSE SubSeq(p, 1, e - 1)
           v == IF e = 0 THEN <<>> ELSE SubSeq(p, e + 1, Len(p))
       IN (IF p = <<>> THEN <<>>
           ELSE <<[k |-> QueryUnescape(k), v |-> QueryUnescape(v)]>>)
          \o PairsOf(Tail(pieces))

ParseQuery(raw) == IF raw = <<>> THEN <<>> ELSE PairsOf(SplitOn(raw, "&"))

\* Values.Add
Add(q, k, v) == Append(q, [k |-> k, v |-> v])

\* Values[k]: the values of a key, in order.
ValuesOf(q, k) ==
  LET RECURSIVE vs(_)
      vs(i) == IF i > Len(q) THEN <<>>
               ELSE (IF q[i].k = k THEN <<q[i].v>> ELSE <<>>) \o vs(i + 1)
  IN vs(1)

\* Values.Has
Has(q, k) == \E i \in 1..Len(q) : q[i].k = k

\* Values.Get: the first value of a key, "" when there is none.
Get(q, k) == IF Has(q, k) THEN ValuesOf(q, k)[1] ELSE <<>>

RECURSIVE SortKeys(_)
SortKeys(S) ==
  IF S = {} THEN <<>>
  ELSE LET m == CHOOSE x \in S : \A y \in S \ {x} : StrLess(x, y)
       IN <<m>> \o SortKeys(S \ {m})

\* Values.Encode: keys sorted, each key's values in order, "k=v" joined by "&".
Encode(q) ==
  LET keys == SortKeys({q[i].k : i \in 1..Len(q)})
      RECURSIVE one(_, _)
      one(k, vs) ==
        IF vs = <<>> THEN <<>>
        ELSE <<QueryEscape(k) \o <<"=">> \o QueryEscape(Head(vs))>>
             \o one(k, Tail(vs))
      RECURSIVE all(_)
      all(ks) == IF ks = <<>> THEN <<>>
                 ELSE one(Head(ks), ValuesOf(q, Head(ks))) \o all(Tail(ks))
      RECURSIVE join(_)
      join(ps) == IF ps = <<>> THEN <<>>
                  ELSE IF Len(ps) = 1 THEN ps[1]
                  ELSE ps[1] \o <<"&">> \o join(Tail(ps))
  IN join(all(keys))

NilURL ==
  [Scheme |-> "", Host |-> <<>>, Path |-> <<>>, ForceQuery |-> FALSE,
   RawQuery |-> <<>>]

\* url.Parse: a control byte is refused; the query is cut off at the first
\* "?" (a lone trailing "?" sets ForceQuery); after the scheme the authority
\* runs to the first "/" and the rest is the path.
url_Parse(rawURL) ==
  IF Count(rawURL, DEL) > 0 THEN [err |-> TRUE, url |-> NilURL]
  ELSE
    LET abs == rawURL # <<>> /\ rawURL[1] = Origin
        rest0 == IF abs THEN Tail(rawURL) ELSE rawURL
        q == IndexOf(rest0, "?")
        force == q > 0 /\ q = Len(rest0) /\ Count(rest0, "?") = 1
        rest == IF q = 0 THEN rest0 ELSE SubSeq(rest0, 1, q - 1)
        rawq == IF q = 0 \/ force THEN <<>> ELSE SubSeq(rest0, q + 1, Len(rest0))
        sl == IndexOf(rest, "/")
        auth == IF sl = 0 THEN rest ELSE SubSeq(rest, 1, sl - 1)
        path == IF sl = 0 THEN <<>> ELSE SubSeq(rest, sl, Len(rest))
    IN [err |-> FALSE,
        url |-> [Scheme |-> IF abs THEN "https" ELSE "",
                 Host |-> IF abs THEN <<OriginHost>> \o auth ELSE <<>>,
                 Path |-> IF abs THEN path ELSE rest,
                 ForceQuery |-> force,
                 RawQuery |-> rawq]]

\* URL.EscapedPath: "?" and control bytes are escaped, the rest is kept.
EscapedPath(u) ==
  [i \in 1..Len(u.Path) |->
     IF u.Path[i] \in {"?", DEL} THEN EscapeTok(u.Path[i]) ELSE u.Path[i]]

\* URL.String: scheme://host, the path, then "?" and the raw query.
url_String(u) ==
  (IF u.Scheme # "" THEN <<Origin>> \o Tail(u.Host) ELSE <<>>)
  \o EscapedPath(u)
  \o (IF u.ForceQuery \/ u.RawQuery # <<>> THEN <<"?">> \o u.RawQuery ELSE <<>>)

\* ------------------------------------------------------------ encoding/json

\* A JSON value of a body's member: absent, null, a string s, or a number.
JAbsent == [t |-> "absent", s |-> ""]
JNull == [t |-> "null", s |-> ""]
JNumber == [t |-> "number", s |-> ""]
JString(s) == [t |-> "string", s |-> s]

ZeroResponse == [Result |-> "", Data |-> "", Reason |-> ""]

\* What json.Unmarshal stores in a string field: a JSON string is stored,
\* an absent member or a null leaves the zero value, a number is refused.
FieldOf(j) == IF j.t = "string" THEN j.s ELSE ""

\* json.Unmarshal(body, &apiResp): text that is no JSON and a JSON array are
\* errors; null leaves the zero struct; an object fills the string fields
\* and is an error when a member has another type.
Unmarshal(body) ==
  CASE body.kind = "text" -> [err |-> TRUE, v |-> ZeroResponse]
    [] body.kind = "array" -> [err |-> TRUE, v |-> ZeroResponse]
    [] body.kind = "null" -> [err |-> FALSE, v |-> ZeroResponse]
    [] OTHER ->
         [err |-> "number" \in {body.result.t, body.data.t, body.reason.t},
          v |-> [Result |-> FieldOf(body.result),
                 Data |-> FieldOf(body.data),
                 Reason |-> FieldOf(body.reason)]]

\* ------------------------------------------------------------------- errors

NoError == [msg |-> "", code |-> 0, v |-> ZeroResponse]
Error(msg) == [msg |-> msg, code |-> 0, v |-> ZeroResponse]

\* A *DreamhostResponse: nil, or a pointer to v.
NilResponse == [nil |-> TRUE, v |-> ZeroResponse]
PtrTo(v) == [nil |-> FALSE, v |-> v]

\* ---------------------------------------------------------------- DNSClient

NilClient ==
  [nil |-> TRUE, apiKey |-> <<>>, client |-> [Timeout |-> 0], BaseURL |-> NilURL]

\* NewClient(apiKey, httpClient, baseUrl); httpClient is "nil" or "given".
NewClientNoKeyCheck(apiKey, httpClient, baseUrl) ==
  LET hc == IF httpClient = "nil" THEN [Timeout |-> DefaultTimeoutSeconds]
            ELSE [Timeout |-> 0]
      base == IF baseUrl = <<>> THEN dreamhostBaseUrl ELSE baseUrl
      parsed == url_Parse(base)
  IN IF parsed.err THEN [c |-> NilClient, err |-> Error("failed to parse URL")]
     ELSE [c |-> [nil |-> FALSE, apiKey |-> apiKey, client |-> hc,
                  BaseURL |-> parsed.url],
           err |-> NoError]

NewClient(apiKey, httpClient, baseUrl) ==
  IF apiKey = <<>> THEN [c |-> NilClient, err |-> Error("empty apiKey")]
  ELSE NewClientNoKeyCheck(apiKey, httpClient, baseUrl)

\* prepareRequest with the unique_id added whatever its value.
prepareRequestAlways(c, r, cmd, uniqueId) ==
  LET q0 == ParseQuery(r.URL.RawQuery)
      q1 == Add(Add(Add(q0, <<"key">>, c.apiKey), <<"cmd">>, <<cmd>>),
                <<"format">>, <<"json">>)
  IN [r EXCEPT !.UserAgent = agentString,
               !.URL.RawQuery = Encode(Add(q1, <<"unique_id">>, uniqueId))]

\* prepareRequest: the user agent, then key, cmd, format and, when it is
\* not empty, unique_id added to the request URL's query, re-encoded.
prepareRequest(c, r, cmd, uniqueId) ==
  LET q0 == ParseQuery(r.URL.RawQuery)
      q1 == Add(Add(Add(q0, <<"key">>, c.apiKey), <<"cmd">>, <<cmd>>),
                <<"format">>, <<"json">>)
      q2 == IF uniqueId # <<>> THEN Add(q1, <<"unique_id">>, uniqueId) ELSE q1
  IN [r EXCEPT !.UserAgent = agentString, !.URL.RawQuery = Encode(q2)]

\* addToReq's checks with the record type looked at before the name.
addToReqErrTypeFirst(rv) ==
  IF rv.RecordType = <<>> THEN Error("DNSRecordValue.RecordType must not be empty")
  ELSE IF rv.Name = <<>> THEN Error("DNSRecordValue.Name must not be empty")
  ELSE IF rv.Value = <<>> THEN Error("DNSRecordValue.Value must not be empty")
  ELSE NoError

\* addToReq's checks: the first empty field of name, record type, value.
addToReqErr(rv) ==
  IF rv.Name = <<>> THEN Error("DNSRecordValue.Name must not be empty")
  ELSE IF rv.RecordType = <<>> THEN Error("DNSRecordValue.RecordType must not be empty")
  ELSE IF rv.Value = <<>> THEN Error("DNSRecordValue.Value must not be empty")
  ELSE NoError

\* addToReq: the error of the checks, or record, type, value added to the
\* request URL's query, re-encoded.
addToReq(rv, r) ==
  IF addToReqErr(rv) # NoError THEN [err |-> addToReqErr(rv), req |-> r]
  ELSE [err |-> NoError,
        req |-> [r EXCEPT !.URL.RawQuery =
                   Encode(Add(Add(Add(ParseQuery(r.URL.RawQuery),
                                      <<"record">>, rv.Name),
                                  <<"type">>, rv.RecordType),
                              <<"value">>, rv.Value))]]

\* The address with a slash appended whatever it ends in.
apiUrlAlwaysSlash(c) == url_String(c.BaseURL) \o <<"/">>

\* sendRequest's apiUrl: the base URL's string, with a slash appended when
\* it does not end in one.
apiUrlOf(c) ==
  LET s == url_String(c.BaseURL)
  IN IF ~HasSuffix(s, "/") THEN s \o <<"/">> ELSE s

NilRequest == [Method |-> "", Target |-> <<>>, URL |-> NilURL, UserAgent |-> ""]

\* http.NewRequest("GET", apiUrl, nil): the address is parsed again.
http_NewRequest(method, target) ==
  LET parsed == url_Parse(target)
  IN IF parsed.err THEN [err |-> TRUE, req |-> NilRequest]
     ELSE [err |-> FALSE,
           req |-> [Method |-> method, Target |-> target, URL |-> parsed.url,
                    UserAgent |-> ""]]

\* sendRequest up to the call of client.Do: the request to send, or the
\* error that ends the call before anything is sent.
buildRequest(c, rv, cmd, uniqueId) ==
  LET nr == http_NewRequest("GET", apiUrlOf(c))
      prepared == prepareRequest(c, nr.req, cmd, uniqueId)
      added == addToReq(rv, prepared)
  IN IF nr.err THEN [err |-> Error("failed to create request"), req |-> NilRequest]
     ELSE IF added.err # NoError THEN [err |-> added.err, req |-> NilRequest]
     ELSE [err |-> NoError, req |-> added.req]

\* The client a call leaves behind, were sendRequest to write the slash
\* into c.BaseURL instead of into its local apiUrl.
clientAfterCallSlashStored(c) ==
  [c EXCEPT !.BaseURL.Path = IF HasSuffix(@, "/") THEN @ ELSE @ \o <<"/">>]

\* The client a call leaves behind: sendRequest and prepareRequest only
\* read c.BaseURL, c.apiKey and c.client.
clientAfterCall(c) == c

StatusOK(code) == ~(code < StatusMin \/ code >= StatusLimit)

\* sendRequest's classification with the body parsed before the status is
\* looked at.
classifyBodyFirst(r) ==
  LET u == Unmarshal(r.body)
  IN IF ~r.readErr /\ ~u.err /\ u.v.Result # "success"
     THEN [resp |-> PtrTo(u.v),
           err |-> [msg |-> "dreamhost API returned non-successful result",
                    code |-> 0, v |-> u.v]]
     ELSE IF ~r.readErr /\ ~u.err THEN [resp |-> PtrTo(u.v), err |-> NoError]
     ELSE IF ~StatusOK(r.status)
     THEN [resp |-> NilResponse,
           err |-> [msg |-> "dreamhost API returned unexpected status code",
                    code |-> r.status, v |-> ZeroResponse]]
     ELSE IF r.readErr
     THEN [resp |-> NilResponse, err |-> Error("failed to read HTTP body")]
     ELSE [resp |-> NilResponse, err |-> Error("failed to parse response")]

\* sendRequest after client.Do delivered a response: the status, then the
\* body read, then the body parsed, then the result.
classify(r) ==
  LET u == Unmarshal(r.body)
  IN IF ~StatusOK(r.status)
     THEN [resp |-> NilResponse,
           err |-> [msg |-> "dreamhost API returned unexpected status code",
                    code |-> r.status, v |-> ZeroResponse]]
     ELSE IF r.readErr
     THEN [resp |-> NilResponse, err |-> Error("failed to read HTTP body")]
     ELSE IF u.err
     THEN [resp |-> NilResponse, err |-> Error("failed to parse response")]
     ELSE IF u.v.Result # "success"
     THEN [resp |-> PtrTo(u.v),
           err |-> [msg |-> "dreamhost API returned non-successful result",
                    code |-> 0, v |-> u.v]]
     ELSE [resp |-> PtrTo(u.v), err |-> NoError]

\* Where a call goes when client.Do returned an error, were it to try again.
afterDoErrorRetry == "do"

\* Where a call goes when client.Do returned an error: sendRequest returns.
afterDoError == "suppress"

\* The body left as it is when sendRequest returns.
deferredCloseMissing(open) == open

\* The deferred Body.Close(), run when sendRequest returns after client.Do
\* delivered a response: the body is closed.
deferredClose(open) == FALSE

\* suppressUniqueIdUsedErr without the look at the data.
suppressAnyResponseErr(rp, err) ==
  IF err # NoError /\ ~rp.nil THEN NoError ELSE err

\* suppressUniqueIdUsedErr that suppresses nothing.
suppressNothing(rp, err) == err

\* suppressUniqueIdUsedErr
suppressUniqueIdUsedErr(rp, err) ==
  IF err # NoError /\ ~rp.nil /\ rp.v.Data = UniqueIdUsed THEN NoError ELSE err

\* The cmd parameter of CreateRecord and of DeleteRecord.
cmdOf(op) == IF op = "CreateRecord" THEN "dns-add_record" ELSE "dns-remove_record"

\* -------------------------------------------------------------------- state

VARIABLES
  newArgs,   \* the arguments NewClient was called with, called = FALSE before
  client,    \* the *DNSClient NewClient returned
  newErr,    \* the error NewClient returned
  pc,        \* per caller: idle, do, classify, suppress, done
  args,      \* per caller: the operation, the record and the unique id
  req,       \* per caller: the request handed to client.Do
  resp,      \* per caller: the response client.Do delivered
  sendRes,   \* per caller: what sendRequest returned, (resp, err)
  ret,       \* per caller: the error CreateRecord/DeleteRecord returned
  sent,      \* per caller: HTTP requests sent during the call
  bodyOpen   \* per caller: the delivered response's body is not yet closed

vars ==
  <<newArgs, client, newErr, pc, args, req, resp, sendRes, ret, sent, bodyOpen>>

Callers == 1..NumCallers

NoArgs ==
  [op |-> "", rv |-> [Name |-> <<>>, RecordType |-> <<>>, Value |-> <<>>],
   uniqueId |-> <<>>]
NoBody == [kind |-> "", result |-> JAbsent, data |-> JAbsent, reason |-> JAbsent]
NoResp == [status |-> 0, readErr |-> FALSE, body |-> NoBody]
NoSendRes == [resp |-> NilResponse, err |-> NoError]

Init ==
  /\ newArgs = [called |-> FALSE, apiKey |-> <<>>, httpClient |-> "nil",
                baseUrl |-> <<>>]
  /\ client = NilClient
  /\ newErr = NoError
  /\ pc = [c \in Callers |-> "idle"]
  /\ args = [c \in Callers |-> NoArgs]
  /\ req = [c \in Callers |-> NilRequest]
  /\ resp = [c \in Callers |-> NoResp]
  /\ sendRes = [c \in Callers |-> NoSendRes]
  /\ ret = [c \in Callers |-> NoError]
  /\ sent = [c \in Callers |-> 0]
  /\ bodyOpen = [c \in Callers |-> FALSE]

\* ------------------------------------------------------------------- inputs

RECURSIVE SeqsUpTo(_, _)
SeqsUpTo(S, n) ==
  IF n = 0 THEN {<<>>}
  ELSE LET shorter == SeqsUpTo(S, n - 1)
       IN shorter \cup {Append(s, t) : s \in shorter, t \in S}

Ops == {"CreateRecord", "DeleteRecord"}
HttpClients == {"nil", "given"}

\* The inputs of the response specification: few addresses, every response.
ApiKeys == {<<>>, <<"A1B2">>}
BaseUrls == {<<>>, <<Origin>>, <<Origin, DEL>>}
Records ==
  [Name : {<<>>, <<"example.com">>}, RecordType : {<<>>, <<"TXT">>},
   Value : {<<>>, <<"A1B2", "=">>}]
UniqueIds == {<<>>, <<"unique123">>}

Statuses == {199, 200, 299, 300, 500}
ObjectBodies ==
  [kind : {"object"},
   result : {JAbsent, JString("success"), JString("error"), JNumber},
   data : {JAbsent, JNull, JNumber, JString(UniqueIdUsed),
           JString("record_already_exists_remove_first")},
   reason : {JAbsent, JString("some reason")}]
Bodies ==
  ObjectBodies \cup
  {[kind |-> k, result |-> JAbsent, data |-> JAbsent, reason |-> JAbsent] :
     k \in {"text", "null", "array"}}
Responses ==
  [status : Statuses, readErr : {FALSE}, body : Bodies]
  \cup [status : Statuses, readErr : {TRUE}, body : {NoBody}]

\* The inputs of the request specification: every address up to MaxUrlLen
\* tokens after the origin, keys and values with reserved bytes, one response.
UrlTokens == {"/", "?", "=", "unique_id", DEL}
ApiKeysReq == {<<>>, <<"A1B2", "&">>}
BaseUrlsReq == {<<>>} \cup {<<Origin>> \o t : t \in SeqsUpTo(UrlTokens, MaxUrlLen)}
RecordsReq ==
  [Name : {<<>>, <<"example.com">>}, RecordType : {<<"TXT">>},
   Value : {<<"A1B2", "=", "/">>}]
UniqueIdsReq == {<<>>, <<"unique123">>, <<"?", "&">>}
SuccessBody ==
  [kind |-> "object", result |-> JString("success"),
   data |-> JString("record_added"), reason |-> JAbsent]
ResponsesReq == {[status |-> 200, readErr |-> FALSE, body |-> SuccessBody]}

\* The inputs of the concurrency specification.
ApiKeysConc == {<<"A1B2">>}
BaseUrlsConc == {<<>>, <<Origin>>}
RecordsConc ==
  [Name : {<<>>, <<"example.com">>}, RecordType : {<<"TXT">>},
   Value : {<<"A1B2">>}]
UniqueIdsConc == {<<"unique123">>}
ResponsesConc ==
  {[status |-> 500, readErr |-> FALSE, body |-> SuccessBody],
   [status |-> 200, readErr |-> FALSE, body |-> SuccessBody],
   [status |-> 200, readErr |-> FALSE,
    body |-> [kind |-> "object", result |-> JString("error"),
              data |-> JString(UniqueIdUsed), reason |-> JAbsent]]}

\* ------------------------------------------------------------------ actions

\* NewClient is called, once.
NewClientCall(apiKey, httpClient, baseUrl) ==
  /\ ~newArgs.called
  /\ newArgs' = [called |-> TRUE, apiKey |-> apiKey, httpClient |-> httpClient,
                 baseUrl |-> baseUrl]
  /\ client' = NewClient(apiKey, httpClient, baseUrl).c
  /\ newErr' = NewClient(apiKey, httpClient, baseUrl).err
  /\ UNCHANGED <<pc, args, req, resp, sendRes, ret, sent, bodyOpen>>

\* CreateRecord or DeleteRecord is called and runs sendRequest up to client.Do:
\* the address, http.NewRequest, prepareRequest, addToReq.
Call(c, op, rv, uniqueId) ==
  /\ ~client.nil
  /\ pc[c] = "idle"
  /\ LET b == buildRequest(client, rv, cmdOf(op), uniqueId)
     IN /\ args' = [args EXCEPT ![c] = [op |-> op, rv |-> rv, uniqueId |-> uniqueId]]
        /\ req' = [req EXCEPT ![c] = b.req]
        /\ sendRes' = [sendRes EXCEPT ![c] = [resp |-> NilResponse, err |-> b.err]]
        /\ pc' = [pc EXCEPT ![c] = IF b.err # NoError THEN "suppress" ELSE "do"]
  /\ client' = clientAfterCall(client)
  /\ UNCHANGED <<newArgs, newErr, resp, ret, sent, bodyOpen>>

\* client.Do sent the request and returned an error.
DoError(c) ==
  /\ pc[c] = "do"
  /\ sent' = [sent EXCEPT ![c] = @ + 1]
  /\ sendRes' = [sendRes EXCEPT ![c] =
                   [resp |-> NilResponse, err |-> Error("HTTP request failed")]]
  /\ pc' = [pc EXCEPT ![c] = afterDoError]
  /\ UNCHANGED <<newArgs, client, newErr, args, req, resp, ret, bodyOpen>>

\* client.Do sent the request and delivered a response, its body open.
DoResponse(c, r) ==
  /\ pc[c] = "do"
  /\ sent' = [sent EXCEPT ![c] = @ + 1]
  /\ resp' = [resp EXCEPT ![c] = r]
  /\ bodyOpen' = [bodyOpen EXCEPT ![c] = TRUE]
  /\ pc' = [pc EXCEPT ![c] = "classify"]
  /\ UNCHANGED <<newArgs, client, newErr, args, req, sendRes, ret>>

\* The rest of sendRequest: the response is classified and, as sendRequest
\* returns, the deferred close runs.
Classify(c) ==
  /\ pc[c] = "classify"
  /\ sendRes' = [sendRes EXCEPT ![c] = classify(resp[c])]
  /\ bodyOpen' = [bodyOpen EXCEPT ![c] = deferredClose(@)]
  /\ pc' = [pc EXCEPT ![c] = "suppress"]
  /\ UNCHANGED <<newArgs, client, newErr, args, req, resp, ret, sent>>

\* CreateRecord/DeleteRecord returns suppressUniqueIdUsedErr(resp, err).
Return(c) ==
  /\ pc[c] = "suppress"
  /\ ret' = [ret EXCEPT ![c] = suppressUniqueIdUsedErr(sendRes[c].resp, sendRes[c].err)]
  /\ pc' = [pc EXCEPT ![c] = "done"]
  /\ UNCHANGED <<newArgs, client, newErr, args, req, resp, sendRes, sent, bodyOpen>>

\* The caller is ready for its next call; nothing of the last one is kept.
Reset(c) ==
  /\ pc[c] = "done"
  /\ pc' = [pc EXCEPT ![c] = "idle"]
  /\ args' = [args EXCEPT ![c] = NoArgs]
  /\ req' = [req EXCEPT ![c] = NilRequest]
  /\ resp' = [resp EXCEPT ![c] = NoResp]
  /\ sendRes' = [sendRes EXCEPT ![c] = NoSendRes]
  /\ ret' = [ret EXCEPT ![c] = NoError]
  /\ sent' = [sent EXCEPT ![c] = 0]
  /\ bodyOpen' = [bodyOpen EXCEPT ![c] = FALSE]
  /\ UNCHANGED <<newArgs, client, newErr>>

\* One caller, few addresses, every response.
Next ==
  \/ \E k \in ApiKeys, h \in HttpClients, u \in BaseUrls : NewClientCall(k, h, u)
  \/ \E op \in Ops, rv \in Records, id \in UniqueIds : Call(1, op, rv, id)
  \/ DoError(1)
  \/ \E r \in Responses : DoResponse(1, r)
  \/ Classify(1)
  \/ Return(1)
  \/ Reset(1)

Spec == Init /\ [][Next]_vars

\* One caller, every address, one response.
NextReq ==
  \/ \E k \in ApiKeysReq, h \in HttpClients, u \in BaseUrlsReq : NewClientCall(k, h, u)
  \/ \E op \in Ops, rv \in RecordsReq, id \in UniqueIdsReq : Call(1, op, rv, id)
  \/ DoError(1)
  \/ \E r \in ResponsesReq : DoResponse(1, r)
  \/ Classify(1)
  \/ Return(1)
  \/ Reset(1)

SpecReq == Init /\ [][NextReq]_vars

\* Every caller at once, on one client.
NextConc ==
  \/ \E k \in ApiKeysConc, h \in {"nil"}, u \in BaseUrlsConc : NewClientCall(k, h, u)
  \/ \E c \in Callers :
       \/ \E op \in Ops, rv \in RecordsConc, id \in UniqueIdsConc : Call(c, op, rv, id)
       \/ DoError(c)
       \/ \E r \in ResponsesConc : DoResponse(c, r)
       \/ Classify(c)
       \/ Return(c)
       \/ Reset(c)

SpecConc == Init /\ [][NextConc]_vars

\* --------------------------------------------------------------- properties

\* What the call of caller c was given and got, read off the state.
Returned(c) == pc[c] = "done"
Delivered(c) == sent[c] >= 1 /\ resp[c] # NoResp
TransportFailed(c) == sent[c] >= 1 /\ resp[c] = NoResp /\ pc[c] \in {"suppress", "done"}
InRange(code) == code \in 200..299
Invalid(rv) == rv.Name = <<>> \/ rv.RecordType = <<>> \/ rv.Value = <<>>
Parsed(c) == ~resp[c].readErr /\ ~Unmarshal(resp[c].body).err
SentinelCase(c) ==
  /\ Delivered(c)
  /\ InRange(resp[c].status)
  /\ Parsed(c)
  /\ Unmarshal(resp[c].body).v.Result # "success"
  /\ Unmarshal(resp[c].body).v.Data = UniqueIdUsed

\* C1: a call whose response has a status in 200-299, a body that parses, a
\* result other than "success" and the data "unique_id_already_used"
\* returns no error, for CreateRecord and DeleteRecord and whatever the
\* unique identifier.
C1_SentinelIsSuccess ==
  \A c \in Callers : Returned(c) /\ SentinelCase(c) => ret[c] = NoError

C1_Witness ==
  /\ Returned(1) /\ SentinelCase(1)
  /\ args[1].op = "DeleteRecord" /\ args[1].uniqueId = <<>>
  /\ resp[1].body.result = JAbsent
  /\ sendRes[1].err # NoError /\ ret[1] = NoError

\* C2: apart from the idempotency sentinel a call returns the error that
\* validation or classification produced: an empty field, a transport
\* failure, a status outside 200-299 (whatever the body says), a body that
\* cannot be read or parsed, a non-success result with other data.
C2_ErrorsPropagate ==
  \A c \in Callers : Returned(c) =>
    /\ ~SentinelCase(c) => ret[c] = sendRes[c].err
    /\ Invalid(args[c].rv) =>
         ret[c].msg \in {"DNSRecordValue.Name must not be empty",
                         "DNSRecordValue.RecordType must not be empty",
                         "DNSRecordValue.Value must not be empty"}
    /\ TransportFailed(c) => ret[c].msg = "HTTP request failed"
    /\ Delivered(c) /\ ~InRange(resp[c].status) =>
         /\ ret[c].msg = "dreamhost API returned unexpected status code"
         /\ ret[c].code = resp[c].status
    /\ Delivered(c) /\ InRange(resp[c].status) /\ resp[c].readErr =>
         ret[c].msg = "failed to read HTTP body"
    /\ Delivered(c) /\ InRange(resp[c].status) /\ ~resp[c].readErr
       /\ Unmarshal(resp[c].body).err =>
         ret[c].msg = "failed to parse response"
    /\ Delivered(c) /\ InRange(resp[c].status) /\ Parsed(c)
       /\ Unmarshal(resp[c].body).v.Result # "success"
       /\ Unmarshal(resp[c].body).v.Data # UniqueIdUsed =>
         /\ ret[c].msg = "dreamhost API returned non-successful result"
         /\ ret[c].v = Unmarshal(resp[c].body).v

C2_Witness ==
  /\ Returned(1) /\ Delivered(1)
  /\ resp[1].status = 200
  /\ resp[1].body.result = JString("error")
  /\ resp[1].body.data = JString("record_already_exists_remove_first")
  /\ ret[1].msg = "dreamhost API returned non-successful result"

\* C3: a call with a record whose name, record type or value is empty
\* returns the error naming the first empty one in that order, whatever
\* the unique identifier, and sends no HTTP request.
C3_ValidationIsLocal ==
  \A c \in Callers : pc[c] # "idle" /\ Invalid(args[c].rv) =>
    /\ sent[c] = 0
    /\ pc[c] \in {"suppress", "done"}
    /\ Returned(c) =>
         ret[c] = Error(IF args[c].rv.Name = <<>>
                        THEN "DNSRecordValue.Name must not be empty"
                        ELSE IF args[c].rv.RecordType = <<>>
                        THEN "DNSRecordValue.RecordType must not be empty"
                        ELSE "DNSRecordValue.Value must not be empty")

C3_Witness ==
  /\ Returned(1)
  /\ args[1].rv.Name = <<>> /\ args[1].rv.RecordType = <<>>
  /\ args[1].uniqueId # <<>>
  /\ ret[1].msg = "DNSRecordValue.Name must not be empty"
  /\ sent[1] = 0

\* C5: a response whose status N is outside 200-299 makes the call return
\* "dreamhost API returned unexpected status code N" whatever its body,
\* and no parsed response comes out of the classification.
C5_StatusBeforeBody ==
  \A c \in Callers :
    Delivered(c) /\ ~InRange(resp[c].status) /\ pc[c] \in {"suppress", "done"} =>
      /\ sendRes[c].resp.nil
      /\ sendRes[c].err.msg = "dreamhost API returned unexpected status code"
      /\ sendRes[c].err.code = resp[c].status
      /\ Returned(c) => ret[c] = sendRes[c].err

C5_Witness ==
  /\ Returned(1) /\ Delivered(1)
  /\ resp[1].status = 500
  /\ resp[1].body.result = JString("success")
  /\ ret[1].msg = "dreamhost API returned unexpected status code"
  /\ ret[1].code = 500

\* C8: a call sends at most one HTTP request, whatever its outcome.
C8_AtMostOneRequest == \A c \in Callers : sent[c] <= 1

C8_Witness ==
  /\ Returned(1) /\ TransportFailed(1)
  /\ sent[1] = 1
  /\ ret[1].msg = "HTTP request failed"

\* C9: once sendRequest has returned, the body of the response the
\* transport delivered is closed, on every path.
C9_BodyClosed ==
  \A c \in Callers : pc[c] \in {"idle", "suppress", "done"} => ~bodyOpen[c]

C9_Witness ==
  /\ Returned(1) /\ Delivered(1)
  /\ resp[1].status = 200 /\ resp[1].body.kind = "text"
  /\ ret[1].msg = "failed to parse response"
  /\ ~bodyOpen[1]

\* The base URL a client was asked for, the vendor's when none was given.
AskedBase == IF newArgs.baseUrl = <<>> THEN dreamhostBaseUrl ELSE newArgs.baseUrl
BaseHasQuery == Count(AskedBase, "?") > 0

\* The call of caller c got as far as a request to send.
Built(c) == req[c] # NilRequest
QueryOf(c) == ParseQuery(req[c].URL.RawQuery)
Only(q, k, v) == ValuesOf(q, k) = <<v>>
LastIs(q, k, v) == Has(q, k) /\ ValuesOf(q, k)[Len(ValuesOf(q, k))] = v

C6_NewClient ==
  newArgs.called =>
    LET bad == newArgs.apiKey = <<>> \/ Count(AskedBase, DEL) > 0
    IN /\ client.nil <=> newErr # NoError
       /\ client.nil <=> bad
       /\ client.nil => client = NilClient
       /\ ~bad =>
            /\ client.apiKey = newArgs.apiKey
            /\ url_String(client.BaseURL) = AskedBase
            /\ newArgs.baseUrl = <<>> =>
                 client.BaseURL =
                   [Scheme |-> "https", Host |-> <<OriginHost>>, Path |-> <<"/">>,
                    ForceQuery |-> FALSE, RawQuery |-> <<>>]

C6_Witness ==
  /\ newArgs.called
  /\ newArgs.apiKey # <<>> /\ Count(newArgs.baseUrl, DEL) > 0
  /\ client.nil /\ newErr.msg = "failed to parse URL"

\* C10 as stated: the address the GET request goes to is the base URL
\* ending in exactly one slash.
C10_Original ==
  \A c \in Callers : Built(c) =>
    /\ req[c].Target \in {AskedBase, AskedBase \o <<"/">>}
    /\ HasSuffix(req[c].Target, "/")
    /\ ~HasSuffix(SubSeq(req[c].Target, 1, Len(req[c].Target) - 1), "/")

\* C10, amended: the address the GET request goes to is the base URL ending
\* in at least one slash: a slash is appended when the base URL ends in
\* none, and a base URL that ends in slashes is used as it is, however many
\* they are.
C10_TrailingSlash ==
  \A c \in Callers : Built(c) =>
    /\ HasSuffix(req[c].Target, "/")
    /\ req[c].Target =
         IF HasSuffix(AskedBase, "/") THEN AskedBase ELSE AskedBase \o <<"/">>
    /\ ~BaseHasQuery =>
         /\ HasSuffix(req[c].URL.Path, "/")
         /\ url_String([req[c].URL EXCEPT !.RawQuery = <<>>]) = req[c].Target

C10_Witness ==
  /\ Built(1) /\ pc[1] = "do"
  /\ newArgs.baseUrl = <<Origin, "/", "/">>
  /\ req[1].Target = <<Origin, "/", "/">>
  /\ req[1].URL.Path = <<"/", "/">>

\* C7: calls in flight at once leave the client as NewClient made it, and
\* a call's request and outcome follow from its own arguments and its own
\* response: two calls given the same get the same.
C7_Independent ==
  /\ [][newArgs.called => client' = client]_vars
  /\ [](\A c, d \in Callers :
          /\ pc[c] # "idle" /\ pc[d] # "idle" /\ args[c] = args[d] =>
               /\ req[c] = req[d]
               /\ Built(c) <=> ~Invalid(args[c].rv)
          /\ Returned(c) /\ Returned(d) /\ args[c] = args[d]
             /\ resp[c] = resp[d] /\ sent[c] = sent[d] =>
               ret[c] = ret[d])

C7_Witness ==
  /\ Returned(1) /\ pc[2] = "classify"
  /\ args[1] = args[2] /\ req[1] = req[2] /\ Built(1)
  /\ resp[1].status = 500 /\ resp[2].status = 200
  /\ ret[1].msg = "dreamhost API returned unexpected status code"

====
